---- MODULE Spec2Model ----
(***************************************************************************)
(* Model of divvy_receipt_automation.py: the AWS Lambda entry point        *)
(* `handler` and the three vendor pipelines it dispatches to.              *)
(*                                                                         *)
(* One invocation is a walk of `pc` through the statements of handler and  *)
(* of the function it calls.  An uncaught Python exception ends the walk   *)
(* in pc = "fault" with the exception's name in `fault`; a return ends it  *)
(* in pc = "done" with the returned statusCode in `returned`.  Every       *)
(* outbound HTTP request the code issues is appended to `calls`.           *)
(***************************************************************************)
EXTENDS Integers, Sequences, FiniteSets, TLC

VARIABLES
    event,                  \* the Lambda event handed to handler
    pc,                     \* position of the invocation
    fault,                  \* name of the uncaught exception, "none" otherwise
    returned,               \* statusCode of the returned object, 0 before return
    json_payload,           \* handler's local: result of loads(event["body"])
    html_body,              \* handler's local html_body
    attachments,            \* handler's local attachments
    pipeline,               \* vendor pipeline entered by the dispatch, "none" if none
    invoice_tracking_url,   \* process_digikey_email's local
    invoice_uuid,           \* process_digikey_email's local
    invoice_pdf_binary,     \* process_digikey_email's local
    idx,                    \* position of the for loop over attachments
    calls,                  \* outbound HTTP requests of this invocation, in order
    answers,                \* what the external endpoints answered (kept for a replay)
    run,                    \* 1: first invocation on the event, 2: its replay
    prev                    \* outcome of the first invocation, once replayed

vars == << event, pc, fault, returned, json_payload, html_body, attachments,
           pipeline, invoice_tracking_url, invoice_uuid, invoice_pdf_binary,
           idx, calls, answers, run, prev >>

(***************************************************************************)
(* Bounds of the model.                                                    *)
(***************************************************************************)
\* most anchor elements in an HtmlBody
MaxAnchors == 2
\* longest Attachments list of an event
MaxAttachments == 3

(***************************************************************************)
(* Python values.  Optional[T]: None is NoneV, a value x is Some(x).       *)
(***************************************************************************)
NoneV == [none |-> TRUE]
Some(x) == [val |-> x]
IsNone(o) == "none" \in DOMAIN o

\* all sequences over S of length at most n
SeqUpTo(S, n) == UNION { [1..k -> S] : k \in 0..n }

(***************************************************************************)
(* Module constants.                                                       *)
(***************************************************************************)
\* environ[...] values read at import; opaque strings
DIVVY_RECEIPT_EMAIL_ADDRESS == "env:DIVVY_RECEIPT_EMAIL_ADDRESS"
DIGIKEY_SENDER_EMAIL_ADDRESS == "env:DIGIKEY_SENDER_EMAIL_ADDRESS"
MCMASTER_SENDER_EMAIL_ADDRESS == "env:MCMASTER_SENDER_EMAIL_ADDRESS"
TOP_KART_SENDER_EMAIL_ADDRESS == "env:TOP_KART_SENDER_EMAIL_ADDRESS"
POSTMARK_URL == "https://api.postmarkapp.com/email"
DIGIKEY_PDF_URL == "https://www.digikey.com/MyDigiKey/Invoice/PDF"

(***************************************************************************)
(* Text as a sequence of one-character strings.                            *)
(***************************************************************************)
LowerAlnum ==
    { "a","b","c","d","e","f","g","h","i","j","k","l","m","n","o","p","q",
      "r","s","t","u","v","w","x","y","z","0","1","2","3","4","5","6","7",
      "8","9" }

\* positions, counted from the match start, of the four hyphens of
\* DIGIKEY_INVOICE_UUID_REGEX: 8-4-4-4-12
UuidHyphens == {8, 13, 18, 23}
UuidLen == 36

\* the regular expression matches text[i .. i+35]
UuidMatchAt(text, i) ==
    /\ i + UuidLen - 1 <= Len(text)
    /\ \A k \in 0..(UuidLen - 1) :
          IF k \in UuidHyphens THEN text[i + k] = "-"
                               ELSE text[i + k] \in LowerAlnum

\* re.search(DIGIKEY_INVOICE_UUID_REGEX, text): the leftmost match, or None
search_uuid(text) ==
    LET hits == { i \in 1..Len(text) : UuidMatchAt(text, i) }
    IN  IF hits = {} THEN NoneV
        ELSE LET i == CHOOSE j \in hits : \A h \in hits : j <= h
             IN  Some(SubSeq(text, i, i + UuidLen - 1))

(***************************************************************************)
(* base64.b64encode(...).decode("utf-8") over a sequence of bytes.         *)
(***************************************************************************)
B64Alphabet ==
    << "A","B","C","D","E","F","G","H","I","J","K","L","M","N","O","P",
       "Q","R","S","T","U","V","W","X","Y","Z","a","b","c","d","e","f",
       "g","h","i","j","k","l","m","n","o","p","q","r","s","t","u","v",
       "w","x","y","z","0","1","2","3","4","5","6","7","8","9","+","/" >>

B64Char(n) == B64Alphabet[n + 1]

RECURSIVE b64encode(_)
b64encode(bytes) ==
    IF Len(bytes) = 0 THEN << >>
    ELSE IF Len(bytes) = 1 THEN
        << B64Char(bytes[1] \div 4), B64Char((bytes[1] % 4) * 16), "=", "=" >>
    ELSE IF Len(bytes) = 2 THEN
        << B64Char(bytes[1] \div 4),
           B64Char((bytes[1] % 4) * 16 + bytes[2] \div 16),
           B64Char((bytes[2] % 16) * 4), "=" >>
    ELSE
        << B64Char(bytes[1] \div 4),
           B64Char((bytes[1] % 4) * 16 + bytes[2] \div 16),
           B64Char((bytes[2] % 16) * 4 + bytes[3] \div 64),
           B64Char(bytes[3] % 64) >>
        \o b64encode(SubSeq(bytes, 4, Len(bytes)))

(***************************************************************************)
(* HTML as BeautifulSoup(html, "html.parser") sees it.  An HtmlBody is     *)
(* the set of vendor words occurring in its text and its anchor elements   *)
(* in document order.  A child of an element is a NavigableString          *)
(* (kind "text") or a Tag (kind "tag", with the text inside it).           *)
(***************************************************************************)
VendorWords == { "digikey", "mcmaster", "topkart" }

Text(s) == [kind |-> "text", s |-> s]
Tag(s) == [kind |-> "tag", s |-> s]

TrackingUrls == { "https://track.example/x", "https://track.example/y" }

AnchorContents ==
    { << >>,
      << Text("Review Invoice") >>,
      << Text("View Order") >>,
      << Tag("Review Invoice") >> }

\* anchors without href or with the first URL, of every content; the second
\* URL only on a "Review Invoice" link (to tell a later match from an earlier)
Anchors ==
    [ href : { NoneV, Some("https://track.example/x") }, contents : AnchorContents ]
    \cup { [ href |-> Some("https://track.example/y"),
             contents |-> << Text("Review Invoice") >> ] }

HtmlDocs == [ words : SUBSET VendorWords, anchors : SeqUpTo(Anchors, MaxAnchors) ]

\* Python's `word in html_body` for a vendor word
HtmlContains(html, word) == word \in html.words

\* soup.find_all("a", href=True)
find_all_a_href(html) == SelectSeq(html.anchors, LAMBDA a : ~IsNone(a.href))

\* digikey_get_invoice_tracking_url(html_body): the outcome of the loop of
\* lines 35-37.  a_tag.contents[0] raises IndexError on an anchor without
\* children; otherwise every later match overwrites invoice_url.
digikey_get_invoice_tracking_url(html) ==
    LET a_tags == find_all_a_href(html)
        hits == { i \in 1..Len(a_tags) :
                    /\ a_tags[i].contents # << >>
                    /\ a_tags[i].contents[1] = Text("Review Invoice") }
    IN  IF \E i \in 1..Len(a_tags) : a_tags[i].contents = << >>
        THEN [raised |-> "IndexError"]
        ELSE IF hits = {} THEN [raised |-> "none", value |-> NoneV]
        ELSE LET last == CHOOSE i \in hits : \A h \in hits : h <= i
             IN  [raised |-> "none", value |-> a_tags[last].href]

(***************************************************************************)
(* Attachment records of the webhook JSON.  Content is base64 text.        *)
(***************************************************************************)
ForwardedContentTypes == { "application/pdf", "application/octet-stream" }
ContentTypes == ForwardedContentTypes \cup { "text/plain" }

\* "QUJD" and "eHl6"
Contents == { << "Q","U","J","D" >>, << "e","H","l","6" >> }

AttachmentRecords ==
    [ ContentType : ContentTypes, Content : Contents, Name : { "r.pdf" } ]

(***************************************************************************)
(* JSON values as json.loads returns them.  The dict of a JSON object is   *)
(* a function from its keys; "HtmlBody" and "Attachments" may each be      *)
(* missing ({} is the empty function).                                     *)
(***************************************************************************)
ObjectsWith(docs, lists) ==
    { << >> }
    \cup [ HtmlBody : docs ]
    \cup [ Attachments : lists ]
    \cup [ HtmlBody : docs, Attachments : lists ]

\* an HtmlBody without anchors (any vendor words)
PlainDocs == { d \in HtmlDocs : d.anchors = << >> }

\* objects of every key set: any HtmlBody with an empty Attachments list,
\* and an HtmlBody without anchors with any Attachments list
JsonObjects ==
    { [type |-> "object", fields |-> f] :
        f \in ObjectsWith(HtmlDocs, { << >> })
              \cup ObjectsWith(PlainDocs, SeqUpTo(AttachmentRecords, MaxAttachments)) }

JsonOthers ==
    { [type |-> "null"], [type |-> "number"] }
    \cup { [type |-> "string", text |-> t] : t \in { << >>, << "HtmlBody" >> } }
    \cup { [type |-> "array", items |-> t] : t \in { << >>, << "HtmlBody" >> } }

JsonValues == JsonObjects \cup JsonOthers

\* Python's `key in payload`: a dict answers by key, a list by element, a str
\* by substring (here: by word); None and numbers raise TypeError
PyIn(key, payload) ==
    IF payload.type = "object" THEN [raised |-> "none", value |-> key \in DOMAIN payload.fields]
    ELSE IF payload.type = "array"
        THEN [raised |-> "none", value |-> \E i \in 1..Len(payload.items) : payload.items[i] = key]
    ELSE IF payload.type = "string"
        THEN [raised |-> "none", value |-> \E i \in 1..Len(payload.text) : payload.text[i] = key]
    ELSE [raised |-> "TypeError"]

\* Python's payload[key]: KeyError for a dict without the key, TypeError for
\* a str key on a list or a str
PyGetItem(payload, key) ==
    IF payload.type = "object"
        THEN IF key \in DOMAIN payload.fields
                 THEN [raised |-> "none", value |-> payload.fields[key]]
                 ELSE [raised |-> "KeyError"]
        ELSE [raised |-> "TypeError"]

(***************************************************************************)
(* Lambda events.  body is JSON text (json |-> TRUE, with the value it     *)
(* parses to) or text json.loads rejects with JSONDecodeError.             *)
(***************************************************************************)
Bodies == { [json |-> FALSE] } \cup { [json |-> TRUE, value |-> v] : v \in JsonValues }

Events == { [hasBody |-> FALSE] } \cup { [hasBody |-> TRUE, body |-> b] : b \in Bodies }

\* json.loads(body)
loads(body) ==
    IF body.json THEN [raised |-> "none", value |-> body.value]
                 ELSE [raised |-> "JSONDecodeError"]

(***************************************************************************)
(* HTTP.  A server answer is a chain of responses: requests.get is called  *)
(* without allow_redirects=False, so it follows a redirect response that   *)
(* carries a Location header and returns the response at the end of the    *)
(* chain.                                                                  *)
(***************************************************************************)
REDIRECT_STATI == { 301, 302, 303, 307, 308 }

RECURSIVE get(_)
get(chain) ==
    IF /\ Len(chain) > 1
       /\ Head(chain).status_code \in REDIRECT_STATI
       /\ Head(chain).location
    THEN get(Tail(chain))
    ELSE Head(chain)

\* "1a2b3c4d-1234-5678-9abc-1234567890ab"
Uuid1 ==
    << "1","a","2","b","3","c","4","d","-","1","2","3","4","-","5","6","7","8","-",
       "9","a","b","c","-","1","2","3","4","5","6","7","8","9","0","a","b" >>

\* script texts: one assigning a URL with the invoice id, one without any id
ScriptWithUuid == << "i","d","=" >> \o Uuid1 \o << ";" >>
ScriptNoUuid == << "i","d","=","n","o","n","e",";" >>

\* a page is the sequence of its script elements, each the sequence of its
\* children (no child, or one text)
Pages ==
    { [scripts |-> << >>],
      [scripts |-> << << >> >>],
      [scripts |-> << << ScriptNoUuid >> >>],
      [scripts |-> << << ScriptWithUuid >> >>],
      [scripts |-> << << ScriptNoUuid >>, << ScriptWithUuid >> >>] }

TrackingStatuses == { 200, 302, 404 }

TrackingResponses == [ status_code : TrackingStatuses, location : {FALSE}, text : Pages ]

\* the tracking URL answers directly, or with a redirect carrying a Location
\* header (and the script page as its body), which requests follows
TrackingChains ==
    { << r >> : r \in TrackingResponses }
    \cup { << [status_code |-> s, location |-> TRUE,
               text |-> [scripts |-> << << ScriptWithUuid >> >>]], r >> :
            s \in { 301, 302 }, r \in TrackingResponses }

\* b"ABC" and b"%PDF"
PdfBytes == { << 65, 66, 67 >>, << 37, 80, 68, 70 >> }

PdfStatuses == { 200, 404, 500 }

PdfChains == { << r >> : r \in [ status_code : PdfStatuses, location : {FALSE}, content : PdfBytes ] }

\* a variant that takes every status below 400 for the redirect
digikey_get_invoice_uuid_lax(invoice_tracking_redirect) ==
    IF invoice_tracking_redirect.status_code >= 400
        THEN [raised |-> "none", value |-> NoneV]
    ELSE LET scripts == invoice_tracking_redirect.text.scripts
         IN  IF scripts = << >> THEN [raised |-> "AttributeError"]
             ELSE IF scripts[1] = << >> THEN [raised |-> "IndexError"]
             ELSE [raised |-> "none", value |-> search_uuid(scripts[1][1])]

\* lines 51-63 of digikey_get_invoice_uuid, given the response get returned.
\* soup.script is None for a page without script element (AttributeError on
\* .contents); contents[0] of an empty script raises IndexError.
digikey_get_invoice_uuid(invoice_tracking_redirect) ==
    IF invoice_tracking_redirect.status_code # 302
        THEN [raised |-> "none", value |-> NoneV]
    ELSE LET scripts == invoice_tracking_redirect.text.scripts
         IN  IF scripts = << >> THEN [raised |-> "AttributeError"]
             ELSE IF scripts[1] = << >> THEN [raised |-> "IndexError"]
             ELSE [raised |-> "none", value |-> search_uuid(scripts[1][1])]

\* a variant that fails on server errors only
digikey_download_pdf_lax(pdf_binary_response) ==
    IF pdf_binary_response.status_code >= 500
        THEN NoneV
        ELSE Some(pdf_binary_response.content)

\* lines 81-85 of digikey_download_pdf, given the response get returned
digikey_download_pdf(pdf_binary_response) ==
    IF pdf_binary_response.status_code # 200
        THEN NoneV
        ELSE Some(pdf_binary_response.content)

(***************************************************************************)
(* Outbound requests.                                                      *)
(***************************************************************************)
TrackingGet(url) == [kind |-> "GET", url |-> url]
PdfGet(uuid) == [kind |-> "GET", url |-> DIGIKEY_PDF_URL, id |-> uuid]

ForwardRequest(from, subject, content) ==
    [ kind |-> "POST", url |-> POSTMARK_URL, From |-> from,
      To |-> DIVVY_RECEIPT_EMAIL_ADDRESS, Subject |-> subject,
      MessageStream |-> "outbound",
      Attachments |-> << [Name |-> "receipt.pdf", Content |-> content,
                          ContentType |-> "application/pdf"] >> ]

\* a variant that skips a receipt an earlier invocation already forwarded
digikey_forward_to_divvy_dedup(pdf_binary) ==
    LET request == ForwardRequest(DIGIKEY_SENDER_EMAIL_ADDRESS,
                                  "Receipt for Digi-Key transaction", b64encode(pdf_binary))
    IN  IF ~IsNone(prev) /\ \E i \in 1..Len(prev.val.calls) : prev.val.calls[i] = request
           THEN << >>
           ELSE << request >>

\* the requests one call of the forwarder posts
digikey_forward_to_divvy(pdf_binary) ==
    << ForwardRequest(DIGIKEY_SENDER_EMAIL_ADDRESS,
                      "Receipt for Digi-Key transaction", b64encode(pdf_binary)) >>

mcmaster_forward_to_divvy(pdf_base64) ==
    << ForwardRequest(MCMASTER_SENDER_EMAIL_ADDRESS,
                      "Receipt for McMaster-Carr transaction", pdf_base64) >>

top_kart_forward_to_divvy(pdf_base64) ==
    << ForwardRequest(TOP_KART_SENDER_EMAIL_ADDRESS,
                      "Receipt for Top Kart transaction", pdf_base64) >>

\* a variant that forwards declared PDFs only
IsReceiptAttachment_pdf_only(attachment) == attachment.ContentType = "application/pdf"

\* the test of lines 206 and 217
IsReceiptAttachment(attachment) == attachment.ContentType \in ForwardedContentTypes

(***************************************************************************)
(* The invocation.                                                         *)
(***************************************************************************)
Init ==
    /\ event \in Events
    /\ pc = "handler"
    /\ fault = "none"
    /\ returned = 0
    /\ json_payload = NoneV
    /\ html_body = NoneV
    /\ attachments = NoneV
    /\ pipeline = "none"
    /\ invoice_tracking_url = NoneV
    /\ invoice_uuid = NoneV
    /\ invoice_pdf_binary = NoneV
    /\ idx = 1
    /\ calls = << >>
    /\ answers = [tracking |-> NoneV, pdf |-> NoneV]
    /\ run = 1
    /\ prev = NoneV

\* an uncaught exception leaves handler
Raise(exc) == pc' = "fault" /\ fault' = exc

\* return {"statusCode": 204}
Return204 == pc' = "done" /\ returned' = 204

\* lines 229-231
CheckBody ==
    /\ pc = "handler"
    /\ IF ~event.hasBody
          THEN Return204
          ELSE pc' = "loads" /\ UNCHANGED returned
    /\ UNCHANGED << event, fault, json_payload, html_body, attachments, pipeline,
                    invoice_tracking_url, invoice_uuid, invoice_pdf_binary, idx,
                    calls, answers, run, prev >>

\* lines 233-237
LoadBody ==
    /\ pc = "loads"
    /\ LET r == loads(event.body)
       IN  IF r.raised = "JSONDecodeError"
              THEN Return204 /\ UNCHANGED json_payload
              ELSE /\ json_payload' = Some(r.value)
                   /\ pc' = "check_html"
                   /\ UNCHANGED returned
    /\ UNCHANGED << event, fault, html_body, attachments, pipeline,
                    invoice_tracking_url, invoice_uuid, invoice_pdf_binary, idx,
                    calls, answers, run, prev >>

\* lines 239-241
CheckHtmlBody ==
    /\ pc = "check_html"
    /\ LET r == PyIn("HtmlBody", json_payload.val)
       IN  IF r.raised # "none"
              THEN Raise(r.raised) /\ UNCHANGED returned
              ELSE IF ~r.value
                  THEN Return204 /\ UNCHANGED fault
                  ELSE pc' = "fields" /\ UNCHANGED << fault, returned >>
    /\ UNCHANGED << event, json_payload, html_body, attachments, pipeline,
                    invoice_tracking_url, invoice_uuid, invoice_pdf_binary, idx,
                    calls, answers, run, prev >>

\* lines 243-244
ReadFields ==
    /\ pc = "fields"
    /\ LET h == PyGetItem(json_payload.val, "HtmlBody")
           a == PyGetItem(json_payload.val, "Attachments")
       IN  IF h.raised # "none"
              THEN Raise(h.raised) /\ UNCHANGED << html_body, attachments >>
              ELSE IF a.raised # "none"
                  THEN /\ Raise(a.raised)
                       /\ html_body' = Some(h.value)
                       /\ UNCHANGED attachments
                  ELSE /\ html_body' = Some(h.value)
                       /\ attachments' = Some(a.value)
                       /\ pc' = "dispatch"
                       /\ UNCHANGED fault
    /\ UNCHANGED << event, returned, json_payload, pipeline,
                    invoice_tracking_url, invoice_uuid, invoice_pdf_binary, idx,
                    calls, answers, run, prev >>

\* the vendor chosen by the if/elif chain of lines 246-251, "none" if none
Vendor(html) ==
    IF HtmlContains(html, "digikey") THEN "digikey"
    ELSE IF HtmlContains(html, "mcmaster") THEN "mcmaster"
    ELSE IF HtmlContains(html, "topkart") THEN "topkart"
    ELSE "none"

\* lines 246-251: enter the vendor's pipeline
Dispatch ==
    /\ pc = "dispatch"
    /\ LET vendor == Vendor(html_body.val)
       IN  /\ pipeline' = vendor
           /\ pc' = CASE vendor = "digikey" -> "dk_url"
                      [] vendor = "mcmaster" -> "mc_loop"
                      [] vendor = "topkart" -> "tk_loop"
                      [] OTHER -> "return"
    /\ UNCHANGED << event, fault, returned, json_payload, html_body, attachments,
                    invoice_tracking_url, invoice_uuid, invoice_pdf_binary, idx,
                    calls, answers, run, prev >>

\* lines 181-184 of process_digikey_email
DigikeyExtractUrl ==
    /\ pc = "dk_url"
    /\ LET r == digikey_get_invoice_tracking_url(html_body.val)
       IN  IF r.raised # "none"
              THEN Raise(r.raised) /\ UNCHANGED invoice_tracking_url
              ELSE /\ invoice_tracking_url' = r.value
                   /\ pc' = IF IsNone(r.value) THEN "return" ELSE "dk_uuid"
                   /\ UNCHANGED fault
    /\ UNCHANGED << event, returned, json_payload, html_body, attachments, pipeline,
                    invoice_uuid, invoice_pdf_binary, idx, calls, answers, run, prev >>

\* what an endpoint may answer: anything on the first invocation, the same
\* again on the replay
Answer(recorded, chains) ==
    IF run = 2 /\ ~IsNone(recorded) THEN { recorded.val } ELSE chains

\* lines 186-189 of process_digikey_email, with digikey_get_invoice_uuid
\* (lines 49-63)
DigikeyGetUuid ==
    /\ pc = "dk_uuid"
    /\ \E chain \in Answer(answers.tracking, TrackingChains) :
          LET r == digikey_get_invoice_uuid(get(chain))
          IN  /\ answers' = [answers EXCEPT !.tracking = Some(chain)]
              /\ calls' = Append(calls, TrackingGet(invoice_tracking_url.val))
              /\ IF r.raised # "none"
                    THEN Raise(r.raised) /\ UNCHANGED invoice_uuid
                    ELSE /\ invoice_uuid' = r.value
                         /\ pc' = IF IsNone(r.value) THEN "return" ELSE "dk_pdf"
                         /\ UNCHANGED fault
    /\ UNCHANGED << event, returned, json_payload, html_body, attachments, pipeline,
                    invoice_tracking_url, invoice_pdf_binary, idx, run, prev >>

\* lines 191-194 of process_digikey_email, with digikey_download_pdf
\* (lines 73-85)
DigikeyDownloadPdf ==
    /\ pc = "dk_pdf"
    /\ \E chain \in Answer(answers.pdf, PdfChains) :
          LET pdf == digikey_download_pdf(get(chain))
          IN  /\ answers' = [answers EXCEPT !.pdf = Some(chain)]
              /\ calls' = Append(calls, PdfGet(invoice_uuid.val))
              /\ invoice_pdf_binary' = pdf
              /\ pc' = IF IsNone(pdf) THEN "return" ELSE "dk_forward"
    /\ UNCHANGED << event, fault, returned, json_payload, html_body, attachments,
                    pipeline, invoice_tracking_url, invoice_uuid, idx, run, prev >>

\* line 196 of process_digikey_email
DigikeyForward ==
    /\ pc = "dk_forward"
    /\ calls' = calls \o digikey_forward_to_divvy(invoice_pdf_binary.val)
    /\ pc' = "return"
    /\ UNCHANGED << event, fault, returned, json_payload, html_body, attachments,
                    pipeline, invoice_tracking_url, invoice_uuid, invoice_pdf_binary,
                    idx, answers, run, prev >>

\* one turn of the loop of process_mcmaster_email, lines 205-207
McmasterStep ==
    /\ pc = "mc_loop"
    /\ IF idx > Len(attachments.val)
          THEN pc' = "return" /\ UNCHANGED << idx, calls >>
          ELSE /\ calls' = IF IsReceiptAttachment(attachments.val[idx])
                              THEN calls \o mcmaster_forward_to_divvy(attachments.val[idx].Content)
                              ELSE calls
               /\ idx' = idx + 1
               /\ UNCHANGED pc
    /\ UNCHANGED << event, fault, returned, json_payload, html_body, attachments,
                    pipeline, invoice_tracking_url, invoice_uuid, invoice_pdf_binary,
                    answers, run, prev >>

\* one turn of the loop of process_top_kart_email, lines 216-218
TopKartStep ==
    /\ pc = "tk_loop"
    /\ IF idx > Len(attachments.val)
          THEN pc' = "return" /\ UNCHANGED << idx, calls >>
          ELSE /\ calls' = IF IsReceiptAttachment(attachments.val[idx])
                              THEN calls \o top_kart_forward_to_divvy(attachments.val[idx].Content)
                              ELSE calls
               /\ idx' = idx + 1
               /\ UNCHANGED pc
    /\ UNCHANGED << event, fault, returned, json_payload, html_body, attachments,
                    pipeline, invoice_tracking_url, invoice_uuid, invoice_pdf_binary,
                    answers, run, prev >>

\* line 253
Return ==
    /\ pc = "return"
    /\ Return204
    /\ UNCHANGED << event, fault, json_payload, html_body, attachments, pipeline,
                    invoice_tracking_url, invoice_uuid, invoice_pdf_binary, idx,
                    calls, answers, run, prev >>

Terminal == pc \in { "done", "fault" }

\* the webhook delivers the same event again: a fresh invocation of handler
\* (every local starts over; the module holds no other state) against
\* endpoints that answer as before
Replay ==
    /\ Terminal
    /\ run = 1
    /\ run' = 2
    /\ prev' = Some([calls |-> calls, returned |-> returned, fault |-> fault,
                     pipeline |-> pipeline])
    /\ pc' = "handler"
    /\ fault' = "none"
    /\ returned' = 0
    /\ json_payload' = NoneV
    /\ html_body' = NoneV
    /\ attachments' = NoneV
    /\ pipeline' = "none"
    /\ invoice_tracking_url' = NoneV
    /\ invoice_uuid' = NoneV
    /\ invoice_pdf_binary' = NoneV
    /\ idx' = 1
    /\ calls' = << >>
    /\ UNCHANGED << event, answers >>

Next ==
    \/ CheckBody
    \/ LoadBody
    \/ CheckHtmlBody
    \/ ReadFields
    \/ Dispatch
    \/ DigikeyExtractUrl
    \/ DigikeyGetUuid
    \/ DigikeyDownloadPdf
    \/ DigikeyForward
    \/ McmasterStep
    \/ TopKartStep
    \/ Return
    \/ Replay

Spec == Init /\ [][Next]_vars

(***************************************************************************)
(* Vocabulary of the properties.                                           *)
(***************************************************************************)
\* the forward (email send) requests of this invocation, in order
Forwards == SelectSeq(calls, LAMBDA c : c.kind = "POST")

\* this invocation has requested the tracking URL / the PDF endpoint
TrackingAsked == \E i \in 1..Len(calls) : calls[i].kind = "GET" /\ calls[i].url \in TrackingUrls
PdfAsked == \E i \in 1..Len(calls) : calls[i].kind = "GET" /\ calls[i].url = DIGIKEY_PDF_URL

\* the event's body parses to a JSON object
BodyIsObject ==
    /\ event.hasBody
    /\ event.body.json
    /\ event.body.value.type = "object"

\* the event's body parses to a JSON object with an HtmlBody key
HasHtmlBody == BodyIsObject /\ "HtmlBody" \in DOMAIN event.body.value.fields

(***************************************************************************)
(* C1.  Every invocation ends by returning statusCode 204: handler never   *)
(* ends in an uncaught exception, and whenever it has returned, the        *)
(* returned statusCode is 204.                                             *)
(***************************************************************************)
C1_AlwaysReturns204 ==
    /\ pc # "fault"
    /\ (pc = "done" => returned = 204)

\* the parsed value holds no "HtmlBody": not as a key, an element or a word
LacksHtmlBody(value) ==
    CASE value.type = "object" -> "HtmlBody" \notin DOMAIN value.fields
      [] value.type = "array" -> \A i \in 1..Len(value.items) : value.items[i] # "HtmlBody"
      [] value.type = "string" -> \A i \in 1..Len(value.text) : value.text[i] # "HtmlBody"
      [] OTHER -> TRUE

\* no body key, a body that is not JSON, or a parsed body without HtmlBody
C2Case ==
    IF ~event.hasBody THEN TRUE
    ELSE IF ~event.body.json THEN TRUE
    ELSE LacksHtmlBody(event.body.value)

(***************************************************************************)
(* C2.  When the event has no body key, or the body is not JSON, or the    *)
(* parsed JSON has no HtmlBody (as a key, nor as an element or substring   *)
(* the membership test could find), the invocation ends returning 204      *)
(* having made no outbound request at all.                                 *)
(***************************************************************************)
C2_FailsSoftWithoutCalls ==
    (Terminal /\ C2Case) => (pc = "done" /\ returned = 204 /\ calls = << >>)

(***************************************************************************)
(* C3.  For an event whose parsed body has HtmlBody, the pipeline that     *)
(* runs is the first match in the order digikey, mcmaster, topkart, and    *)
(* none (with no outbound request) when HtmlBody contains none of the      *)
(* three words.                                                            *)
(***************************************************************************)
C3_FirstMatchDispatch ==
    (Terminal /\ HasHtmlBody) =>
        LET w == event.body.value.fields.HtmlBody.words
        IN  /\ (pipeline = "digikey") <=> ("digikey" \in w)
            /\ (pipeline = "mcmaster") <=> ("mcmaster" \in w /\ "digikey" \notin w)
            /\ (pipeline = "topkart") <=> ("topkart" \in w /\ w \cap {"digikey", "mcmaster"} = {})
            /\ (w = {}) => (pipeline = "none" /\ calls = << >>)

\* the body is {"HtmlBody": ...} alone, a Digi-Key mail with a Review Invoice link
C4Event ==
    /\ BodyIsObject
    /\ DOMAIN event.body.value.fields = { "HtmlBody" }
    /\ LET html == event.body.value.fields.HtmlBody
       IN  /\ "digikey" \in html.words
           /\ \E i \in 1..Len(html.anchors) :
                 /\ ~IsNone(html.anchors[i].href)
                 /\ html.anchors[i].contents = << Text("Review Invoice") >>

\* the tracking URL's own response, before any redirect is followed
TrackingRaw == Head(answers.tracking.val)

\* that response is a 302 whose first script holds a UUID
TrackingRawIs302WithUuid ==
    /\ TrackingRaw.status_code = 302
    /\ TrackingRaw.text.scripts # << >>
    /\ TrackingRaw.text.scripts[1] # << >>
    /\ ~IsNone(search_uuid(TrackingRaw.text.scripts[1][1]))

(***************************************************************************)
(* C4.  End-to-end Digi-Key success.  For an event whose JSON object       *)
(* holds only HtmlBody, with "digikey" and a "Review Invoice" anchor with  *)
(* an href: the tracking URL is requested; when its own response is a 302  *)
(* whose first script holds a UUID, the PDF endpoint is requested; and     *)
(* when that answers 200 with bytes B, the invocation makes exactly one    *)
(* forward, whose single attachment is base64(B) and whose subject is      *)
(* "Invoice for Digi-Key transaction".                                     *)
(***************************************************************************)
C4_DigikeyEndToEnd ==
    (Terminal /\ C4Event) =>
        /\ TrackingAsked
        /\ TrackingRawIs302WithUuid =>
              /\ PdfAsked
              /\ Head(answers.pdf.val).status_code = 200 =>
                    /\ Len(Forwards) = 1
                    /\ Len(calls) = 3
                    /\ Forwards[1].Subject = "Invoice for Digi-Key transaction"
                    /\ Len(Forwards[1].Attachments) = 1
                    /\ Forwards[1].Attachments[1].Content =
                           b64encode(Head(answers.pdf.val).content)

(***************************************************************************)
(* C5.  Once the GET of the tracking URL has returned a response whose     *)
(* status code is not 302, digikey_get_invoice_uuid has returned None      *)
(* without raising, and the invocation's only outbound request is that     *)
(* GET: no PDF download and no forward, then and ever after.               *)
(***************************************************************************)
C5_Non302ShortCircuits ==
    (pipeline = "digikey" /\ TrackingAsked
        /\ get(answers.tracking.val).status_code # 302) =>
        /\ fault = "none"
        /\ IsNone(invoice_uuid)
        /\ pc \in { "return", "done" }
        /\ calls = << TrackingGet(invoice_tracking_url.val) >>

\* a Digi-Key invocation that got a 404 from the tracking URL and returned
C5_Witness ==
    /\ pc = "done"
    /\ pipeline = "digikey"
    /\ TrackingAsked
    /\ get(answers.tracking.val).status_code = 404
    /\ returned = 204

(***************************************************************************)
(* C6.  Once the GET of the PDF endpoint has returned: if the status code  *)
(* is not 200, digikey_download_pdf has returned None without raising and  *)
(* the invocation makes no forward; if it is 200, the function has         *)
(* returned the bytes of the response unchanged.                           *)
(***************************************************************************)
C6_PdfStatusDecides ==
    (pipeline = "digikey" /\ PdfAsked) =>
        LET response == get(answers.pdf.val)
        IN  IF response.status_code # 200
               THEN /\ fault = "none"
                    /\ IsNone(invoice_pdf_binary)
                    /\ Forwards = << >>
                    /\ pc \in { "return", "done" }
               ELSE invoice_pdf_binary = Some(response.content)

\* a Digi-Key invocation whose PDF download was answered 500 and that returned
C6_Witness ==
    /\ pc = "done"
    /\ pipeline = "digikey"
    /\ PdfAsked
    /\ get(answers.pdf.val).status_code = 500
    /\ Len(calls) = 2

\* no UUID can be matched in the page: no script, an empty script, or a
\* first script whose text has no match
NoUuidMatch(page) ==
    IF page.scripts = << >> THEN TRUE
    ELSE IF page.scripts[1] = << >> THEN TRUE
    ELSE IsNone(search_uuid(page.scripts[1][1]))

(***************************************************************************)
(* C7.  When the tracking URL's GET returns 302 and no UUID can be         *)
(* matched in the response (no script element, an empty script element,    *)
(* or a first script without a UUID), digikey_get_invoice_uuid returns     *)
(* None without raising and the invocation makes no further request.       *)
(***************************************************************************)
C7_NoMatchShortCircuits ==
    (pipeline = "digikey" /\ TrackingAsked
        /\ get(answers.tracking.val).status_code = 302
        /\ NoUuidMatch(get(answers.tracking.val).text)) =>
        /\ fault = "none"
        /\ IsNone(invoice_uuid)
        /\ calls = << TrackingGet(invoice_tracking_url.val) >>

\* the attachments the loop has visited so far (all of them once it ended)
C8Visited ==
    IF pc \in { "mc_loop", "tk_loop" }
       THEN SubSeq(attachments.val, 1, idx - 1)
       ELSE attachments.val

(***************************************************************************)
(* C8.  In process_mcmaster_email and process_top_kart_email the forwards  *)
(* made so far are, in order and one per element, the attachments already  *)
(* visited whose ContentType is "application/pdf" or                       *)
(* "application/octet-stream", each forward carrying that attachment's     *)
(* Content unchanged as its single attachment; when the pipeline has       *)
(* ended every attachment has been visited.  No other request is made.     *)
(***************************************************************************)
C8_ForwardsAreTheReceiptAttachments ==
    (pipeline \in { "mcmaster", "topkart" }) =>
        LET receipts == SelectSeq(C8Visited, LAMBDA a :
                            a.ContentType \in { "application/pdf", "application/octet-stream" })
        IN  /\ Len(calls) = Len(receipts)
            /\ \A i \in 1..Len(calls) :
                  /\ calls[i].kind = "POST"
                  /\ calls[i].From = IF pipeline = "mcmaster"
                                        THEN MCMASTER_SENDER_EMAIL_ADDRESS
                                        ELSE TOP_KART_SENDER_EMAIL_ADDRESS
                  /\ Len(calls[i].Attachments) = 1
                  /\ calls[i].Attachments[1].Content = receipts[i].Content
            /\ (pc \in { "mc_loop", "tk_loop" }) => idx <= Len(attachments.val) + 1
            /\ fault = "none"

\* a McMaster-Carr invocation over pdf, text/plain, octet-stream that
\* returned after forwarding the first and the third, which differ
C8_Witness ==
    /\ pc = "done"
    /\ pipeline = "mcmaster"
    /\ Len(attachments.val) = 3
    /\ attachments.val[1].ContentType = "application/pdf"
    /\ attachments.val[2].ContentType = "text/plain"
    /\ attachments.val[3].ContentType = "application/octet-stream"
    /\ attachments.val[1].Content # attachments.val[3].Content
    /\ Len(calls) = 2

\* text content of an anchor with at most one child
HasTextReviewInvoice(a) == Len(a.contents) = 1 /\ a.contents[1].s = "Review Invoice"

\* the href of the last anchor with an href and that text content, else None
C9Expected(html) ==
    LET hits == { i \in 1..Len(html.anchors) :
                    ~IsNone(html.anchors[i].href) /\ HasTextReviewInvoice(html.anchors[i]) }
    IN  IF hits = {} THEN NoneV
        ELSE html.anchors[CHOOSE i \in hits : \A h \in hits : h <= i].href

(***************************************************************************)
(* C9.  digikey_get_invoice_tracking_url never raises, and returns the     *)
(* href of the last anchor that has an href and whose text content is      *)
(* exactly "Review Invoice", None when there is no such anchor.            *)
(***************************************************************************)
C9_LastReviewInvoiceLink ==
    (pipeline = "digikey" /\ pc # "dk_url") =>
        /\ ~(fault = "IndexError" /\ ~TrackingAsked)
        /\ invoice_tracking_url = C9Expected(html_body.val)

(***************************************************************************)
(* C10.  No deduplication, no state across invocations: when the same      *)
(* event is handled again and the endpoints answer as before, the second   *)
(* invocation ends as the first did, having made the same requests (the    *)
(* same forwards included).                                                *)
(***************************************************************************)
C10_ReplayRepeatsTheCalls ==
    (run = 2 /\ Terminal) =>
        /\ calls = prev.val.calls
        /\ returned = prev.val.returned
        /\ fault = prev.val.fault
        /\ pipeline = prev.val.pipeline

\* a replayed Digi-Key invocation that forwarded the receipt a second time
C10_Witness ==
    /\ run = 2
    /\ pc = "done"
    /\ pipeline = "digikey"
    /\ Len(Forwards) = 1
    /\ \E i \in 1..Len(prev.val.calls) : prev.val.calls[i] = Forwards[1]

====
